---- MODULE Spec2Model ----
(***************************************************************************)
(* A model of fclib's array engine (src/fclib/arr.h).                      *)
(*                                                                         *)
(* An array is one heap block: the header word `len` (the dimensionality), *)
(* `len` shape words, and a payload of total_elements * element_size       *)
(* bytes.  The payload is kept byte by byte.  Bytes are 0..255; a byte     *)
(* that malloc left uninitialised is Uninit.  A size_t value container is  *)
(* a sequence of WordSize bytes, least significant byte first.             *)
(***************************************************************************)
EXTENDS Integers, Sequences, FiniteSets, TLC

VARIABLES
    pc,     \* "run", or how the process ended: "abort" (abort() was called),
            \* "fault" (a null address was accessed), "undefined" (a stray
            \* access happened: what follows is not defined)
    arr,    \* the array the caller holds, NULL before fclib_arr_create
    es,     \* the element_size the caller passes with arr
    oob,    \* a write has landed outside arr's allocation
    wrote,  \* the assignment made since the last fill, if any
    last,   \* the last call: its name, arguments and return value
    slice,  \* the array returned by the slicer, NULL if none
    heap,   \* the blocks malloc has handed out, by address 1, 2, ...; empty
            \* where the arrays are kept by value.  Where it is in use, arr
            \* and slice are the addresses of their blocks.
    sys     \* the output capture of src/fclib/system.h: the descriptor
            \* table, the stdio buffers and the module's three globals

vars == <<pc, arr, es, oob, wrote, last, slice, heap, sys>>

----------------------------------------------------------------------------
(* Bounds of the model *)

MaxDimLen == 3
MaxFillLen == 5
MaxSlots == 8
MaxSrcLen == 10
MaxSliceLen == 4
MaxSliceSlots == 16
MaxHeapLen == 2
MaxDeepLen == 2
MaxBlocks == 7
MaxStrLen == 3
MaxWrites == 3
MaxStarts == 2

(* Program constants *)

HeaderSize == 8
WordSize == 8
HybridThreshold == 128
Uninit == -1

(* The dimensionalities the callers use: 0 (which the constructor does not
   refuse) up to three axes *)
Dimensionalities == 0..3

(* Element sizes the callers use *)
AccessElemSizes == {4, 8}
FillElemSizes == {4, 128}
SliceElemSizes == {1, 4}
SliceNDElemSizes == {4}

(* The characters of the strings the callers pass: 'a', 'b', 'z' *)
Chars == {97, 98, 122}

(* The ownership depths the callers pass to fclib_arr_free *)
Complexities == 0..2

(* Values the callers pass *)
Values == {7, 513}
FillValue == {7}
AssignValue == {513}

(* What an indeterminate byte may hold; the indeterminate bytes of one read
   all take the same of these *)
GarbageBytes == {0, 255}

----------------------------------------------------------------------------
(* Bytes and memory *)

RECURSIVE LE(_, _)
\* the n low bytes of v, least significant first (the layout memcpy sees)
LE(v, n) == IF n = 0 THEN <<>> ELSE <<v % 256>> \o LE(v \div 256, n - 1)

\* n bytes of caller data derived from v (a pointed-to value of n bytes)
Pattern(v, n) == [k \in 1..n |-> (v * k) % 256]

RECURSIVE ProdUpTo(_, _)
ProdUpTo(s, n) == IF n = 0 THEN 1 ELSE ProdUpTo(s, n - 1) * s[n]

\* memcpy(payload + off, bytes, Len(bytes)): bytes that fall outside the
\* payload are written outside the allocation
MemCpy(M, off, bytes) ==
    [data |-> [k \in 1..Len(M.data) |->
                  IF k > off /\ k <= off + Len(bytes)
                  THEN bytes[k - off] ELSE M.data[k]],
     oob |-> M.oob \/ (Len(bytes) > 0 /\ off + Len(bytes) > Len(M.data))]

\* the n bytes at payload + off
MemRead(data, off, n) == [k \in 1..n |-> data[off + k]]

NULL == [null |-> TRUE]

\* the process at its start: descriptor 1 is the standard output, descriptor 2
\* the standard error, nothing buffered, the capture globals as initialised
SysStart ==
    [fds |-> <<[file |-> "in"], [file |-> "out"], [file |-> "err"]>>,
     buf |-> [s \in {"stdout", "stderr"} |-> <<>>],
     orig_stdout_fd |-> -1,
     orig_stderr_fd |-> -1,
     capture_file |-> NULL,
     tmp |-> <<>>,
     starts |-> 0,
     writes |-> 0]

NoOp == [op |-> "none"]

----------------------------------------------------------------------------
(* fclib_arr_create *)

\* for (i < dimensionality) arr_len *= lengths[i]
total_elements(shape) == ProdUpTo(shape, Len(shape))

\* mutant: the shape words are counted as bytes
fclib_arr_create_ShapeBytes(d, esz, lengths) ==
    LET arr_len == total_elements(lengths)
        total_size == HeaderSize + d
        size == total_size + arr_len * esz
    IN  [null |-> FALSE,
         len |-> d,
         shape |-> [i \in 1..d |-> lengths[i]],
         data |-> [k \in 1..(size - total_size) |-> Uninit],
         size |-> size]

fclib_arr_create(d, esz, lengths) ==
    LET arr_len == total_elements(lengths)
        total_size == HeaderSize + d * WordSize
        size == total_size + arr_len * esz
    IN  [null |-> FALSE,
         len |-> d,
         shape |-> [i \in 1..d |-> lengths[i]],
         data |-> [k \in 1..(size - total_size) |-> Uninit],
         size |-> size]

\* the shapes a caller passes: axis lengths 0..most, at most MaxSlots slots
Shapes(d, most) ==
    {s \in [1..d -> 0..most] : total_elements(s) <= MaxSlots}

Create(ES, most) ==
    /\ pc = "run"
    /\ arr = NULL
    /\ \E d \in Dimensionalities, esz \in ES, ok \in BOOLEAN :
         \E lengths \in Shapes(d, most) :
            /\ es' = esz
            /\ IF ok
               THEN /\ arr' = fclib_arr_create(d, esz, lengths)
                    /\ pc' = "run"
               ELSE \* malloc returned NULL: arr->len is written through it
                    /\ arr' = NULL
                    /\ pc' = "fault"
            /\ last' = [op |-> "create", d |-> d, lengths |-> lengths, ok |-> ok]
    /\ UNCHANGED <<oob, wrote, slice, heap, sys>>

----------------------------------------------------------------------------
(* Fill strategies.  They work on M = [data, oob]: the payload and whether *)
(* a write has landed outside the allocation.                              *)

Mem(a) == [data |-> a.data, oob |-> FALSE]

RECURSIVE SeqLoop_StopsShort(_, _, _, _)
\* mutant: the loop ends one slot early
SeqLoop_StopsShort(M, esz, i, total) ==
    IF i < total - 1
    THEN SeqLoop_StopsShort(MemCpy(M, i * esz, MemRead(M.data, (i - 1) * esz, esz)),
                            esz, i + 1, total)
    ELSE M

RECURSIVE SeqLoop(_, _, _, _)
\* for (i = 1; i < total_elements; i++) memcpy(slot i, slot i - 1, element_size)
SeqLoop(M, esz, i, total) ==
    IF i < total
    THEN SeqLoop(MemCpy(M, i * esz, MemRead(M.data, (i - 1) * esz, esz)),
                 esz, i + 1, total)
    ELSE M

\* mutant: every round copies the whole filled prefix
ExpRound_AlwaysDoubles(M, esz, filled, total) ==
    [mem |-> MemCpy(M, filled * esz, MemRead(M.data, 0, filled * esz)),
     filled |-> filled + filled]

\* one round of the doubling loop: to_copy and the memcpy of the prefix
ExpRound(M, esz, filled, total) ==
    LET to_copy == IF filled <= total - filled THEN filled ELSE total - filled
    IN  [mem |-> MemCpy(M, filled * esz, MemRead(M.data, 0, to_copy * esz)),
         filled |-> filled + to_copy]

RECURSIVE ExpLoop_NoPartialRound(_, _, _, _)
\* mutant: the loop doubles only while a whole round fits
ExpLoop_NoPartialRound(M, esz, filled, total) ==
    IF 2 * filled <= total
    THEN LET r == ExpRound(M, esz, filled, total)
         IN  ExpLoop_NoPartialRound(r.mem, esz, r.filled, total)
    ELSE M

RECURSIVE ExpLoop(_, _, _, _)
\* while (filled < total_elements) { ...; filled += to_copy; }
ExpLoop(M, esz, filled, total) ==
    IF filled < total
    THEN LET r == ExpRound(M, esz, filled, total)
         IN  ExpLoop(r.mem, esz, r.filled, total)
    ELSE M

fclib_arr_fill_seq(a, esz, value) ==
    LET total == total_elements(a.shape)
        M0 == MemCpy(Mem(a), 0, value)
    IN  SeqLoop(M0, esz, 1, total)

fclib_arr_fill_exp(a, esz, value) ==
    LET total == total_elements(a.shape)
        M0 == MemCpy(Mem(a), 0, value)
    IN  ExpLoop(M0, esz, 1, total)

fclib_arr_fill_inline(a, esz, value) ==
    LET total == total_elements(a.shape)
        M0 == MemCpy(Mem(a), 0, value)
    IN  IF esz < HybridThreshold
        THEN ExpLoop(M0, esz, 1, total)
        ELSE SeqLoop(M0, esz, 1, total)

\* value is a size_t container; memcpy(data_start, &value, element_size)
fclib_arr_fill_val(a, esz, value) ==
    LET total == total_elements(a.shape)
        M0 == MemCpy(Mem(a), 0, SubSeq(value, 1, esz))
    IN  IF esz < HybridThreshold
        THEN ExpLoop(M0, esz, 1, total)
        ELSE SeqLoop(M0, esz, 1, total)

Filled(opname, value, M) ==
    /\ arr' = [arr EXCEPT !.data = M.data]
    /\ oob' = (oob \/ M.oob)
    /\ pc' = IF M.oob THEN "undefined" ELSE pc
    /\ last' = [op |-> opname, val |-> value]
    /\ wrote' = NoOp
    /\ UNCHANGED <<es, slice, heap, sys>>

FillSeq(VS) ==
    /\ pc = "run" /\ arr # NULL
    /\ \E v \in VS :
         Filled("fill_seq", Pattern(v, es), fclib_arr_fill_seq(arr, es, Pattern(v, es)))

FillExp(VS) ==
    /\ pc = "run" /\ arr # NULL
    /\ \E v \in VS :
         Filled("fill_exp", Pattern(v, es), fclib_arr_fill_exp(arr, es, Pattern(v, es)))

FillInline(VS) ==
    /\ pc = "run" /\ arr # NULL
    /\ \E v \in VS :
         Filled("fill_inline", Pattern(v, es), fclib_arr_fill_inline(arr, es, Pattern(v, es)))

\* the container holds at most WordSize bytes, so element_size <= WordSize
FillVal(VS) ==
    /\ pc = "run" /\ arr # NULL
    /\ es <= WordSize
    /\ \E v \in VS :
         Filled("fill_val", SubSeq(LE(v, WordSize), 1, es),
                fclib_arr_fill_val(arr, es, LE(v, WordSize)))

----------------------------------------------------------------------------
(* Element access and assignment *)

Ptr(off) == [null |-> FALSE, off |-> off]

RECURSIVE AccessLoop_OffByOne(_, _, _, _, _, _)
\* mutant: the bounds test lets index == length through
AccessLoop_OffByOne(a, indices, i, offset, stride, checked) ==
    IF i > a.len
    THEN Ptr(offset)
    ELSE IF checked /\ indices[i] > a.shape[i]
         THEN NULL
         ELSE AccessLoop_OffByOne(a, indices, i + 1, offset + indices[i] * stride,
                                  stride * a.shape[i], checked)

RECURSIVE AccessLoop_StrideReset(_, _, _, _, _, _)
\* mutant: the stride is set to the axis length instead of multiplied by it
AccessLoop_StrideReset(a, indices, i, offset, stride, checked) ==
    IF i > a.len
    THEN Ptr(offset)
    ELSE IF checked /\ indices[i] >= a.shape[i]
         THEN NULL
         ELSE AccessLoop_StrideReset(a, indices, i + 1, offset + indices[i] * stride,
                                     a.shape[i], checked)

RECURSIVE AccessLoop(_, _, _, _, _, _)
\* the loop of fclib_arr_access; checked = FALSE is the same loop with the
\* bounds test removed
AccessLoop(a, indices, i, offset, stride, checked) ==
    IF i > a.len
    THEN Ptr(offset)
    ELSE IF checked /\ indices[i] >= a.shape[i]
         THEN NULL
         ELSE AccessLoop(a, indices, i + 1, offset + indices[i] * stride,
                         stride * a.shape[i], checked)

\* the address returned, as a byte offset from data_start, or NULL
fclib_arr_access(a, esz, indices) ==
    LET r == AccessLoop(a, indices, 1, 0, 1, TRUE)
    IN  IF r.null THEN NULL ELSE Ptr(r.off * esz)

\* Passing the NULL of an out-of-bounds access to memcpy is undefined.  The
\* build either faults on the null address ("fault"), or has dropped the
\* test that leads to it, so that the address is computed from the indices
\* unchecked ("elided").
NullOutcomes == {"fault", "elided"}

UncheckedAddr(a, esz, indices) ==
    Ptr(AccessLoop(a, indices, 1, 0, 1, FALSE).off * esz)

\* the indices a caller passes: every in-bounds index and, on every axis, the
\* first one out of bounds
Indices(a) == {ix \in [1..a.len -> 0..MaxDimLen] : \A i \in 1..a.len : ix[i] <= a.shape[i]}

InBounds(a, ix) == \A i \in 1..a.len : ix[i] < a.shape[i]

\* a byte read from the payload or, off its end or uninitialised, anything
ByteAt(data, k, g) ==
    IF k >= 1 /\ k <= Len(data) /\ data[k] # Uninit THEN data[k] ELSE g

Access ==
    /\ pc = "run" /\ arr # NULL
    /\ \E ix \in Indices(arr) :
         last' = [op |-> "access", idx |-> ix, pre |-> arr,
                  ret |-> fclib_arr_access(arr, es, ix)]
    /\ UNCHANGED <<pc, arr, es, oob, wrote, slice, heap, sys>>

\* size_t value; memcpy(&value, element, element_size); return value;
\* the bytes of value that memcpy does not write are indeterminate
fclib_arr_access_val(a, esz, element, g) ==
    [k \in 1..WordSize |->
        IF k <= esz THEN ByteAt(a.data, element.off + k, g) ELSE g]

AccessVal ==
    /\ pc = "run" /\ arr # NULL
    /\ es <= WordSize
    /\ \E ix \in Indices(arr) :
         LET element == fclib_arr_access(arr, es, ix)
         IN  IF ~element.null
             THEN /\ \E g \in GarbageBytes :
                       last' = [op |-> "access_val", idx |-> ix, pre |-> arr,
                                ret |-> fclib_arr_access_val(arr, es, element, g)]
                  /\ pc' = pc
             ELSE \E o \in NullOutcomes :
                    IF o = "fault"
                    THEN /\ pc' = "fault"
                         /\ last' = [op |-> "access_val", idx |-> ix, pre |-> arr]
                    ELSE /\ pc' = "undefined"
                         /\ \E g \in GarbageBytes :
                              last' = [op |-> "access_val", idx |-> ix, pre |-> arr,
                                       ret |-> fclib_arr_access_val(
                                           arr, es, UncheckedAddr(arr, es, ix), g)]
    /\ UNCHANGED <<arr, es, oob, wrote, slice, heap, sys>>

\* mutant: the whole of value is copied, not element_size bytes of it
fclib_arr_assign_at_WholeValue(a, esz, element, value) ==
    MemCpy(Mem(a), element.off, value)

\* memcpy(element, value, element_size)
fclib_arr_assign_at(a, esz, element, value) ==
    MemCpy(Mem(a), element.off, SubSeq(value, 1, esz))

Assigned(opname, ix, value) ==
    LET element == fclib_arr_access(arr, es, ix)
    IN  /\ last' = [op |-> opname, idx |-> ix, val |-> value, pre |-> arr]
        /\ IF ~element.null
           THEN LET M == fclib_arr_assign_at(arr, es, element, value)
                IN  /\ arr' = [arr EXCEPT !.data = M.data]
                    /\ oob' = (oob \/ M.oob)
                    /\ pc' = pc
                    /\ wrote' = [op |-> "assign", idx |-> ix,
                                  val |-> SubSeq(value, 1, es)]
           ELSE \E o \in NullOutcomes :
                  IF o = "fault"
                  THEN /\ pc' = "fault"
                       /\ UNCHANGED <<arr, oob, wrote>>
                  ELSE LET M == fclib_arr_assign_at(
                                    arr, es, UncheckedAddr(arr, es, ix), value)
                       IN  /\ arr' = [arr EXCEPT !.data = M.data]
                           /\ oob' = (oob \/ M.oob)
                           /\ pc' = "undefined"
                           /\ wrote' = NoOp
        /\ UNCHANGED <<es, slice, heap, sys>>

\* value points to element_size bytes
AssignAt ==
    /\ pc = "run" /\ arr # NULL
    /\ wrote = NoOp
    /\ \E ix \in Indices(arr), v \in AssignValue :
         Assigned("assign_at", ix, SubSeq(LE(v, WordSize), 1, es))

\* value is a size_t container, of which the first element_size bytes are copied
AssignValAt ==
    /\ pc = "run" /\ arr # NULL
    /\ wrote = NoOp
    /\ es <= WordSize
    /\ \E ix \in Indices(arr), v \in AssignValue :
         Assigned("assign_val_at", ix, LE(v, WordSize))

----------------------------------------------------------------------------
(* fclib_arr_get_slice_1d *)

\* mutant: the test for an empty range is missing
Slice1dRange_NoEmptyTest(src_len, from, to) ==
    LET to0 == IF to = 0 THEN src_len ELSE to
        real_to == IF to0 > src_len THEN src_len ELSE to0
    IN  IF from > real_to
        THEN IF real_to = 0
             THEN [abort |-> TRUE]
             ELSE [abort |-> FALSE, from |-> real_to - 1, to |-> real_to]
        ELSE [abort |-> FALSE, from |-> from, to |-> real_to]

\* mutant: a lower bound above the upper bound is clamped to the upper bound
Slice1dRange_ClampToUpper(src_len, from, to) ==
    LET to0 == IF to = 0 THEN src_len ELSE to
        real_to == IF to0 > src_len THEN src_len ELSE to0
    IN  IF from = real_to
        THEN [abort |-> TRUE]
        ELSE IF from > real_to
             THEN IF real_to = 0
                  THEN [abort |-> TRUE]
                  ELSE [abort |-> FALSE, from |-> real_to, to |-> real_to]
             ELSE [abort |-> FALSE, from |-> from, to |-> real_to]

\* real_from and real_to as the function settles them, or the abort() taken
Slice1dRange(src_len, from, to) ==
    LET to0 == IF to = 0 THEN src_len ELSE to
        real_to == IF to0 > src_len THEN src_len ELSE to0
    IN  IF from = real_to
        THEN [abort |-> TRUE]
        ELSE IF from > real_to
             THEN IF real_to = 0
                  THEN [abort |-> TRUE]
                  ELSE [abort |-> FALSE, from |-> real_to - 1, to |-> real_to]
             ELSE [abort |-> FALSE, from |-> from, to |-> real_to]

\* mutant: the source offset is not scaled by element_size
fclib_arr_get_slice_1d_Unscaled(src, esz, r) ==
    LET len == r.to - r.from
        new == fclib_arr_create(1, esz, <<len>>)
        M == MemCpy(Mem(new), 0, MemRead(src.data, r.from, len * esz))
    IN  [new EXCEPT !.data = M.data]

\* the slice returned for a range that did not abort
fclib_arr_get_slice_1d(src, esz, r) ==
    LET len == r.to - r.from
        new == fclib_arr_create(1, esz, <<len>>)
        M == MemCpy(Mem(new), 0, MemRead(src.data, r.from * esz, len * esz))
    IN  [new EXCEPT !.data = M.data]

GetSlice1d ==
    /\ pc = "run" /\ arr # NULL /\ arr.len = 1
    /\ slice = NULL
    /\ \E from \in 0..(MaxSrcLen + 1), to \in 0..(MaxSrcLen + 1), ok \in BOOLEAN :
         LET r == Slice1dRange(arr.shape[1], from, to)
         IN  /\ last' = [op |-> "get_slice_1d", from |-> from, to |-> to, ok |-> ok]
             /\ IF r.abort
                THEN pc' = "abort" /\ slice' = NULL
                ELSE IF ok
                     THEN pc' = pc /\ slice' = fclib_arr_get_slice_1d(arr, es, r)
                     ELSE \* malloc returned NULL inside fclib_arr_create
                          pc' = "fault" /\ slice' = NULL
    /\ UNCHANGED <<arr, es, oob, wrote, heap, sys>>

\* a 1-D source of n elements whose bytes all differ: built by
\* fclib_arr_create and one assignment per slot
SliceSource(n, esz) ==
    [fclib_arr_create(1, esz, <<n>>) EXCEPT
        !.data = [k \in 1..(n * esz) |-> (k * 7) % 256]]

----------------------------------------------------------------------------
(* fclib_arr_get_slice *)

\* mutant: the comparison is off by one
ULess_OffByOne(a, b) == IF (a >= 0) = (b >= 0) THEN a + 1 < b ELSE b < 0

\* a < b between size_t values.  A size_t is kept as an integer; a negative
\* integer n stands for the wrapped value 2^64 + n.
ULess(a, b) == IF (a >= 0) = (b >= 0) THEN a < b ELSE b < 0

\* total / chunk_size between size_t values, for total below 2^63
UDiv(a, b) == IF b < 0 THEN 0 ELSE a \div b

\* ranges[i * 2] and ranges[i * 2 + 1] of axis i, counted from 0
RangeFrom(ranges, i) == ranges[2 * i + 1]
RangeTo(ranges, i) == ranges[2 * i + 2]

\* mutant: a range of one element is let through
RECURSIVE ValidateRanges_NoWidthTest(_, _, _, _)
ValidateRanges_NoWidthTest(src, ranges, i, new_dimensionality) ==
    IF i >= src.len
    THEN [null |-> FALSE, new_dimensionality |-> new_dimensionality]
    ELSE LET from == RangeFrom(ranges, i)
             to == RangeTo(ranges, i)
         IN  IF from # to
             THEN IF to > src.shape[i + 1]
                  THEN NULL
                  ELSE ValidateRanges_NoWidthTest(src, ranges, i + 1,
                                                  new_dimensionality + 1)
             ELSE IF from >= src.shape[i + 1]
                  THEN NULL
                  ELSE ValidateRanges_NoWidthTest(src, ranges, i + 1,
                                                  new_dimensionality)

\* the validation loop from axis i on, new_dimensionality counted so far:
\* NULL at the first offending axis, else the count of ranged axes
RECURSIVE ValidateRanges(_, _, _, _)
ValidateRanges(src, ranges, i, new_dimensionality) ==
    IF i >= src.len
    THEN [null |-> FALSE, new_dimensionality |-> new_dimensionality]
    ELSE LET from == RangeFrom(ranges, i)
             to == RangeTo(ranges, i)
         IN  IF from # to
             THEN IF to > src.shape[i + 1]
                  THEN NULL
                  ELSE IF ULess(to - from, 2)
                       THEN NULL
                       ELSE ValidateRanges(src, ranges, i + 1,
                                           new_dimensionality + 1)
             ELSE IF from >= src.shape[i + 1]
                  THEN NULL
                  ELSE ValidateRanges(src, ranges, i + 1, new_dimensionality)

\* new_dim_lengths over the first d axes: to - from of each ranged axis
RECURSIVE NewDimLengths(_, _)
NewDimLengths(ranges, d) ==
    IF d = 0
    THEN <<>>
    ELSE LET from == RangeFrom(ranges, d - 1)
             to == RangeTo(ranges, d - 1)
             rest == NewDimLengths(ranges, d - 1)
         IN  IF from # to THEN Append(rest, to - from) ELSE rest

\* src_strides[i], axis i counted from 0
RECURSIVE SrcStride(_, _)
SrcStride(shape, i) ==
    IF i = 0 THEN 1 ELSE SrcStride(shape, i - 1) * shape[i]

\* src_offset: the sum of current_indices[i] * src_strides[i] over d axes
RECURSIVE SrcOffset(_, _, _)
SrcOffset(current_indices, shape, d) ==
    IF d = 0
    THEN 0
    ELSE SrcOffset(current_indices, shape, d - 1)
            + current_indices[d] * SrcStride(shape, d - 1)


\* the odometer of the copy loop, entered at axis i (counted from 0) and
\* walking down to start_dim.  The loop counter is a size_t: below axis 0 it
\* wraps, i >= start_dim still holds and ranges is read out of bounds.
RECURSIVE Advance(_, _, _, _)
Advance(current_indices, ranges, i, start_dim) ==
    IF i < 0
    THEN [wrapped |-> TRUE, current_indices |-> current_indices]
    ELSE IF i < start_dim
         THEN [wrapped |-> FALSE, current_indices |-> current_indices]
         ELSE LET from == RangeFrom(ranges, i)
                  to == RangeTo(ranges, i)
              IN  IF from # to
                  THEN IF current_indices[i + 1] + 1 < to
                       THEN [wrapped |-> FALSE,
                             current_indices |->
                                [current_indices EXCEPT ![i + 1] = @ + 1]]
                       ELSE Advance([current_indices EXCEPT ![i + 1] = from],
                                    ranges, i - 1, start_dim)
                  ELSE Advance(current_indices, ranges, i - 1, start_dim)

is_first_range(ranges) == RangeFrom(ranges, 0) # RangeTo(ranges, 0)

chunk_size(ranges) ==
    IF is_first_range(ranges)
    THEN RangeTo(ranges, 0) - RangeFrom(ranges, 0)
    ELSE 1

\* the copy loop from chunk on.  D = [data, oob, bad]: the result's payload,
\* whether a write left the result's allocation, and whether the loop read
\* outside the source or ran its odometer below axis 0.
RECURSIVE ChunkLoop(_, _, _, _, _, _, _, _)
ChunkLoop(D, src, esz, ranges, current_indices, chunk, num_chunks, dest_index) ==
    IF chunk >= num_chunks \/ D.bad
    THEN D
    ELSE LET start_dim == IF is_first_range(ranges) THEN 1 ELSE 0
             adv == IF chunk > 0
                    THEN Advance(current_indices, ranges, src.len - 1, start_dim)
                    ELSE [wrapped |-> FALSE, current_indices |-> current_indices]
             src_offset == SrcOffset(adv.current_indices, src.shape, src.len)
             n == chunk_size(ranges) * esz
         IN  IF adv.wrapped \/ src_offset * esz + n > Len(src.data)
             THEN [D EXCEPT !.bad = TRUE]
             ELSE LET W == MemCpy([data |-> D.data, oob |-> D.oob],
                                  dest_index * esz,
                                  MemRead(src.data, src_offset * esz, n))
                  IN  ChunkLoop([data |-> W.data, oob |-> W.oob, bad |-> FALSE],
                                src, esz, ranges, adv.current_indices,
                                chunk + 1, num_chunks,
                                dest_index + chunk_size(ranges))

\* the general path, after validation: allocate and copy
SliceGeneral(src, esz, ranges, new_dimensionality, ndebug) ==
    LET new_dim_lengths == NewDimLengths(ranges, src.len)
        total_result_elements == total_elements(new_dim_lengths)
        result == fclib_arr_create(new_dimensionality, esz, new_dim_lengths)
        divides == IF chunk_size(ranges) < 0
                   THEN total_result_elements = 0
                   ELSE total_result_elements % chunk_size(ranges) = 0
        num_chunks == UDiv(total_result_elements, chunk_size(ranges))
        D == ChunkLoop([data |-> result.data, oob |-> FALSE, bad |-> FALSE],
                       src, esz, ranges,
                       [i \in 1..src.len |-> RangeFrom(ranges, i - 1)],
                       0, num_chunks, 0)
    IN  IF total_result_elements < 0
        THEN \* a request of 2^63 bytes or more: malloc returns NULL and
             \* fclib_arr_create writes through it
             [kind |-> "refused"]
        ELSE IF ~ndebug /\ ~divides
             THEN [kind |-> "abort"]
             ELSE IF D.bad \/ D.oob
                  THEN [kind |-> "undefined"]
                  ELSE [kind |-> "array",
                        arr |-> [result EXCEPT !.data = D.data]]

\* fclib_arr_get_slice.  ok: the allocations succeed; ndebug: the build
\* compiles assert() away.
fclib_arr_get_slice(src, esz, ranges, ok, ndebug) ==
    LET v == ValidateRanges(src, ranges, 0, 0)
    IN  IF v.null
        THEN [kind |-> "null"]
        ELSE IF ~ndebug /\ v.new_dimensionality = 0
             THEN [kind |-> "abort"]
             ELSE IF src.len = 1 /\ v.new_dimensionality = 1
                  THEN LET r == Slice1dRange(src.shape[1], RangeFrom(ranges, 0),
                                             RangeTo(ranges, 0))
                       IN  IF r.abort
                           THEN [kind |-> "abort"]
                           ELSE IF ok
                                THEN [kind |-> "array",
                                      arr |-> fclib_arr_get_slice_1d(src, esz, r)]
                                ELSE [kind |-> "nomem"]
                  ELSE IF ok
                       THEN SliceGeneral(src, esz, ranges,
                                         v.new_dimensionality, ndebug)
                       ELSE [kind |-> "nomem"]

\* the range pairs a caller passes for the first d axes: per axis, from up
\* to the axis length and to up to one past it
RECURSIVE RangesUpTo(_, _)
RangesUpTo(shape, d) ==
    IF d = 0
    THEN {<<>>}
    ELSE {r \o <<from, to>> : r \in RangesUpTo(shape, d - 1),
                              from \in 0..shape[d],
                              to \in 0..(shape[d] + 1)}

Ranges(a) == RangesUpTo(a.shape, a.len)

GetSlice ==
    /\ pc = "run"
    /\ arr # NULL
    /\ arr.len >= 1
    /\ slice = NULL
    /\ last = NoOp
    /\ \E ranges \in Ranges(arr), ok \in BOOLEAN, ndebug \in BOOLEAN :
         LET r == fclib_arr_get_slice(arr, es, ranges, ok, ndebug)
         IN  /\ pc' = CASE r.kind \in {"nomem", "refused"} -> "fault"
                        [] r.kind = "abort" -> "abort"
                        [] r.kind = "undefined" -> "undefined"
                        [] OTHER -> pc
             /\ slice' = IF r.kind = "array" THEN r.arr ELSE NULL
             /\ last' = IF r.kind = "nomem"
                        THEN [op |-> "get_slice", ok |-> FALSE]
                        ELSE [op |-> "get_slice", ok |-> TRUE,
                              ranges |-> ranges]
    /\ UNCHANGED <<arr, es, oob, wrote, heap, sys>>

\* the shapes of the sources sliced: axis lengths 0..MaxSliceLen
SliceShapes(d) ==
    {s \in [1..d -> 0..MaxSliceLen] : total_elements(s) <= MaxSliceSlots}

\* a source whose bytes all differ: built by fclib_arr_create and one
\* assignment per slot
SliceSourceND(shape, esz) ==
    LET a == fclib_arr_create(Len(shape), esz, shape)
    IN  [a EXCEPT !.data = [k \in 1..Len(a.data) |-> (k * 7) % 256]]

----------------------------------------------------------------------------
(* The heap: blocks by address, fclib_arr_fill_deep and fclib_arr_free *)

\* the caller's pointer to the block at address a
At(a) == [null |-> FALSE, addr |-> a]

\* a word that is the address of no block
Wild == -1

\* the size_t or pointer stored at bytes + off.  Lengths and addresses stay
\* below 256 here: a word with an uninitialised byte, a word of 256 or more
\* and a word read past the end of the bytes are the address of no block.
Word(bytes, off) ==
    IF off + WordSize > Len(bytes)
    THEN Wild
    ELSE IF \E k \in 1..WordSize :
               \/ bytes[off + k] = Uninit
               \/ k > 1 /\ bytes[off + k] # 0
         THEN Wild
         ELSE bytes[off + 1]

\* the first n words of w, as bytes
RECURSIVE Words(_, _)
Words(w, n) ==
    IF n = 0 THEN <<>> ELSE Words(w, n - 1) \o LE(w[n], WordSize)

\* the bytes of the array a in its block: len, the shape words, the payload
Image(a) == LE(a.len, HeaderSize) \o Words(a.shape, a.len) \o a.data

\* the array that the bytes of a block hold
View(bytes) ==
    LET d == Word(bytes, 0)
        total_size == HeaderSize + d * WordSize
    IN  [null |-> FALSE,
         len |-> d,
         shape |-> [i \in 1..d |-> Word(bytes, HeaderSize + (i - 1) * WordSize)],
         data |-> SubSeq(bytes, total_size + 1, Len(bytes)),
         size |-> Len(bytes)]

Block(bytes) == [live |-> TRUE, bytes |-> bytes, frees |-> 0]

\* malloc(n): a block of n uninitialised bytes at the next address.  No
\* address is handed out twice, so a stale pointer stays recognisable.
malloc(H, n) == Append(H, Block([k \in 1..n |-> Uninit]))

IsLive(H, p) == p \in 1..Len(H) /\ H[p].live

\* memcpy(block p + off, bytes, Len(bytes))
Store(H, p, off, bytes) ==
    LET W == MemCpy([data |-> H[p].bytes, oob |-> FALSE], off, bytes)
    IN  [blocks |-> [H EXCEPT ![p].bytes = W.data], oob |-> W.oob]

\* the block at p is read, or is handed to free: an entry of HB.log
Read(p) == [ev |-> "read", addr |-> p]
Freed(p) == [ev |-> "free", addr |-> p]

\* free(p) on HB = [blocks, bad, log]; bad: the behaviour has become
\* undefined; log: the reads and the releases of the call so far, in order
free(HB, p) ==
    IF p = 0
    THEN HB
    ELSE IF p \notin 1..Len(HB.blocks)
         THEN [HB EXCEPT !.bad = TRUE]
         ELSE [blocks |-> [HB.blocks EXCEPT ![p].live = FALSE,
                                            ![p].frees = @ + 1],
               bad |-> HB.bad \/ ~HB.blocks[p].live,
               log |-> Append(HB.log, Freed(p))]

\* mutant: the children are not released
fclib_arr_free_Shallow(HB, p, complexity) == free(HB, p)

RECURSIVE fclib_arr_free(_, _, _)
RECURSIVE FreeFields(_, _, _, _, _)

\* mutant: the buffer is released before the loop over its fields
fclib_arr_free_ParentFirst(HB, p, complexity) ==
    IF HB.bad
    THEN HB
    ELSE IF complexity = 0
         THEN free(HB, p)
         ELSE IF ~IsLive(HB.blocks, p)
              THEN [HB EXCEPT !.bad = TRUE, !.log = Append(@, Read(p))]
              ELSE LET a == View(HB.blocks[p].bytes)
                       length == total_elements(a.shape)
                       R == [HB EXCEPT !.log = Append(@, Read(p))]
                   IN  IF a.len = Wild \/ \E i \in 1..a.len : a.shape[i] = Wild
                       THEN [R EXCEPT !.bad = TRUE]
                       ELSE FreeFields(free(R, p), p, 0, length, complexity - 1)

\* fclib_arr_free(arr, complexity) with arr the address p
fclib_arr_free(HB, p, complexity) ==
    IF HB.bad
    THEN HB
    ELSE IF complexity = 0
         THEN free(HB, p)
         ELSE IF ~IsLive(HB.blocks, p)
              THEN \* arr->len is read through a pointer to no live block
                   [HB EXCEPT !.bad = TRUE, !.log = Append(@, Read(p))]
              ELSE LET a == View(HB.blocks[p].bytes)
                       length == total_elements(a.shape)
                       R == [HB EXCEPT !.log = Append(@, Read(p))]
                   IN  IF a.len = Wild \/ \E i \in 1..a.len : a.shape[i] = Wild
                       THEN [R EXCEPT !.bad = TRUE]
                       ELSE free(FreeFields(R, p, 0, length, complexity - 1), p)

\* the loop over fields[i], i on; fields[i] is read from the block each time
FreeFields(HB, p, i, length, next_complexity) ==
    IF i >= length \/ HB.bad
    THEN HB
    ELSE IF ~IsLive(HB.blocks, p)
         THEN [HB EXCEPT !.bad = TRUE, !.log = Append(@, Read(p))]
         ELSE LET a == View(HB.blocks[p].bytes)
                  field == Word(a.data, i * WordSize)
                  R == [HB EXCEPT !.log = Append(@, Read(p))]
              IN  FreeFields(fclib_arr_free(R, field, next_complexity),
                             p, i + 1, length, next_complexity)

\* mutant: every slot is given the seed pointer itself
fclib_arr_fill_deep_SharesSeed(H, p, value_size, value, fail) ==
    LET a == View(H[p].bytes)
        total == total_elements(a.shape)
        S == Store(H, p, HeaderSize + a.len * WordSize,
                   Words([i \in 1..total |-> value], total))
    IN  [blocks |-> S.blocks, bad |-> S.oob, fault |-> FALSE]

\* the fill loop from slot i on, on HB = [blocks, bad, fault].  fail: the
\* slot whose malloc returns NULL (total_elements: none does).
RECURSIVE FillDeepLoop(_, _, _, _, _, _, _)
FillDeepLoop(HB, p, value_size, value, i, total, fail) ==
    IF i >= total \/ HB.bad \/ HB.fault
    THEN HB
    ELSE LET a == View(HB.blocks[p].bytes)
             element_ptr == HeaderSize + a.len * WordSize + i * WordSize
         IN  IF i = fail
             THEN \* NULL is stored in the slot and memcpy writes through it
                  LET S == Store(HB.blocks, p, element_ptr, LE(0, WordSize))
                  IN  [blocks |-> S.blocks, bad |-> S.oob, fault |-> TRUE]
             ELSE LET H1 == malloc(HB.blocks, value_size)
                      q == Len(H1)
                      S == Store(H1, p, element_ptr, LE(q, WordSize))
                      seed == S.blocks[value].bytes
                      C == Store(S.blocks, q, 0,
                                 SubSeq(seed, 1, value_size))
                  IN  FillDeepLoop(
                          [blocks |-> IF value_size > Len(seed)
                                      THEN S.blocks
                                      ELSE C.blocks,
                           bad |-> S.oob \/ value_size > Len(seed),
                           fault |-> FALSE],
                          p, value_size, value, i + 1, total, fail)

\* fclib_arr_fill_deep(arr, value_size, value) with arr the address p and
\* value the address of the seed
fclib_arr_fill_deep(H, p, value_size, value, fail) ==
    LET a == View(H[p].bytes)
    IN  FillDeepLoop([blocks |-> H, bad |-> FALSE, fault |-> FALSE],
                     p, value_size, value, 0, total_elements(a.shape), fail)

\* mutant: the whole source is not copied but handed back
SliceBlock_HandsBackWhole(H, src, result) ==
    IF Image(result) = H[src].bytes
    THEN [blocks |-> H, ret |-> src]
    ELSE [blocks |-> Append(H, Block(Image(result))), ret |-> Len(H) + 1]

\* the slice as the slicers leave it in the heap: the block that
\* fclib_arr_create allocated, filled by memcpy; ret is its address
SliceBlock(H, src, result) ==
    [blocks |-> Append(H, Block(Image(result))), ret |-> Len(H) + 1]

\* the caller's pointer named by target
Target(target) == IF target = "arr" THEN arr ELSE slice

Targets == {"arr", "slice"}

\* the in-bounds multi-indices of the array a
HeapIndices(a) ==
    {ix \in [1..a.len -> 0..MaxHeapLen] : \A i \in 1..a.len : ix[i] < a.shape[i]}

HeapGetSlice1d ==
    /\ pc = "run"
    /\ es \in SliceNDElemSizes
    /\ slice = NULL
    /\ last.op \notin {"get_slice", "get_slice_1d"}
    /\ Len(heap) < MaxBlocks
    /\ IF ~IsLive(heap, arr.addr)
       THEN /\ pc' = "undefined"
            /\ last' = [op |-> "get_slice_1d", pre |-> heap]
            /\ UNCHANGED <<slice, heap>>
       ELSE LET src == View(heap[arr.addr].bytes)
            IN  /\ src.len = 1
                /\ \E from \in 0..(src.shape[1] + 1), to \in 0..(src.shape[1] + 1) :
                     LET r == Slice1dRange(src.shape[1], from, to)
                         S == SliceBlock(heap, arr.addr,
                                         fclib_arr_get_slice_1d(src, es, r))
                     IN  /\ last' = [op |-> "get_slice_1d", from |-> from,
                                     to |-> to, pre |-> heap]
                         /\ IF r.abort
                            THEN pc' = "abort" /\ UNCHANGED <<slice, heap>>
                            ELSE /\ pc' = pc
                                 /\ heap' = S.blocks
                                 /\ slice' = At(S.ret)
    /\ UNCHANGED <<arr, es, oob, wrote, sys>>

HeapGetSlice ==
    /\ pc = "run"
    /\ es \in SliceNDElemSizes
    /\ slice = NULL
    /\ last.op \notin {"get_slice", "get_slice_1d"}
    /\ Len(heap) < MaxBlocks
    /\ IF ~IsLive(heap, arr.addr)
       THEN /\ pc' = "undefined"
            /\ last' = [op |-> "get_slice", pre |-> heap]
            /\ UNCHANGED <<slice, heap>>
       ELSE LET src == View(heap[arr.addr].bytes)
            IN  \E ranges \in Ranges(src), ndebug \in BOOLEAN :
                  LET r == fclib_arr_get_slice(src, es, ranges, TRUE, ndebug)
                      S == SliceBlock(heap, arr.addr, r.arr)
                  IN  /\ last' = [op |-> "get_slice", ranges |-> ranges,
                                  pre |-> heap]
                      /\ pc' = CASE r.kind = "refused" -> "fault"
                                 [] r.kind = "abort" -> "abort"
                                 [] r.kind = "undefined" -> "undefined"
                                 [] OTHER -> pc
                      /\ IF r.kind = "array"
                         THEN heap' = S.blocks /\ slice' = At(S.ret)
                         ELSE UNCHANGED <<slice, heap>>
    /\ UNCHANGED <<arr, es, oob, wrote, sys>>

\* fclib_arr_assign_at on the array or on its slice, at an index in bounds
HeapAssignAt ==
    /\ pc = "run"
    /\ wrote = NoOp
    /\ \E target \in Targets :
         LET p == Target(target)
         IN  /\ p # NULL
             /\ IF ~IsLive(heap, p.addr)
                THEN /\ pc' = "undefined"
                     /\ last' = [op |-> "assign_at", target |-> target,
                                 pre |-> heap]
                     /\ UNCHANGED <<wrote, heap>>
                ELSE LET a == View(heap[p.addr].bytes)
                     IN  \E ix \in HeapIndices(a), value \in AssignValue :
                           LET element == fclib_arr_access(a, es, ix)
                               S == Store(heap, p.addr,
                                          HeaderSize + a.len * WordSize + element.off,
                                          LE(value, es))
                           IN  /\ heap' = S.blocks
                               /\ pc' = pc
                               /\ wrote' = [op |-> "assign", idx |-> ix,
                                            val |-> LE(value, es)]
                               /\ last' = [op |-> "assign_at", target |-> target,
                                           idx |-> ix, pre |-> heap]
    /\ UNCHANGED <<arr, es, oob, slice, sys>>

HeapFillDeep ==
    /\ pc = "run"
    /\ es = WordSize
    /\ IsLive(heap, arr.addr)
    /\ LET total == total_elements(View(heap[arr.addr].bytes).shape)
       IN  /\ Len(heap) + total <= MaxBlocks
           /\ \E value \in 1..Len(heap), fail \in 0..total :
                /\ value # arr.addr
                /\ heap[value].live
                /\ LET value_size == Len(heap[value].bytes)
                       F == fclib_arr_fill_deep(heap, arr.addr, value_size,
                                                value, fail)
                   IN  /\ heap' = F.blocks
                       /\ pc' = IF F.fault THEN "fault"
                                ELSE IF F.bad THEN "undefined" ELSE pc
                       /\ last' = [op |-> "fill_deep", value |-> value,
                                   value_size |-> value_size,
                                   ok |-> ~F.fault, pre |-> heap]
    /\ UNCHANGED <<arr, es, oob, wrote, slice, sys>>

HeapFree ==
    /\ pc = "run"
    /\ \E target \in Targets, complexity \in Complexities :
         LET p == Target(target)
             F == fclib_arr_free([blocks |-> heap, bad |-> FALSE, log |-> <<>>],
                                 p.addr, complexity)
         IN  /\ p # NULL
             /\ heap' = F.blocks
             /\ pc' = IF F.bad THEN "undefined" ELSE pc
             /\ last' = [op |-> "free", target |-> target,
                         complexity |-> complexity, pre |-> heap,
                         log |-> F.log]
    /\ UNCHANGED <<arr, es, oob, wrote, slice, sys>>

\* the shapes of the plain arrays kept in the heap: one or two axes
HeapShapes ==
    UNION {[1..d -> 0..MaxHeapLen] : d \in 1..2}

\* the seeds passed to fclib_arr_fill_deep: a value of four bytes, or the
\* buffer of an array
Seeds == {Pattern(7, 4), Image(SliceSourceND(<<2>>, 4))}

\* a user-assembled nested array: the outer array at address 1, its n1 inner
\* arrays at 2.., their n2 values each after them; every slot assigned the
\* address of its own block
Nested(n1, n2) ==
    LET inner(i) == 1 + i
        val(i, j) == 1 + n1 + (i - 1) * n2 + j
        outer == [fclib_arr_create(1, WordSize, <<n1>>) EXCEPT
                     !.data = Words([i \in 1..n1 |-> inner(i)], n1)]
        inner_arr(i) == [fclib_arr_create(1, WordSize, <<n2>>) EXCEPT
                            !.data = Words([j \in 1..n2 |-> val(i, j)], n2)]
    IN  <<Block(Image(outer))>>
          \o [i \in 1..n1 |-> Block(Image(inner_arr(i)))]
          \o [k \in 1..(n1 * n2) |-> Block(LE(k * 7, 4))]

\* an outer array of n1 slots at address 1, not filled yet; an inner array
\* of n2 slots at address 2, deep-filled from the four-byte value at
\* address 3
DeepInner(n1, n2) ==
    fclib_arr_fill_deep(
        <<Block(Image(fclib_arr_create(1, WordSize, <<n1>>))),
          Block(Image(fclib_arr_create(1, WordSize, <<n2>>))),
          Block(Pattern(7, 4))>>,
        2, 4, 3, n2).blocks

----------------------------------------------------------------------------
(* Strings (src/fclib/str.h).  A string is [len, value]: value holds len     *)
(* characters and the terminating 0.  In the string specification arr is    *)
(* the string the caller holds and slice the string fclib_str_get_slice      *)
(* returned.                                                                 *)

\* fclib_str_create(len): len uninitialised characters and the terminator
fclib_str_create(len) ==
    [null |-> FALSE,
     len |-> len,
     value |-> [k \in 1..(len + 1) |-> IF k = len + 1 THEN 0 ELSE Uninit]]

\* fclib_str_init(value, len): the first len bytes at value
fclib_str_init(value, len) ==
    LET string == fclib_str_create(len)
    IN  [string EXCEPT !.value = [k \in 1..(len + 1) |->
                                     IF k <= len THEN value[k] ELSE @[k]]]

fclib_str_get_slice(src, from, to) ==
    LET to0 == IF to = 0 THEN src.len ELSE to
        real_to == IF to0 > src.len THEN src.len ELSE to0
        real_from == IF from > real_to THEN real_to - 1 ELSE from
        len == real_to - real_from
    IN  IF from = real_to
        THEN fclib_str_create(0)
        ELSE fclib_str_init(src.value, len)

\* what memcmp(a, b, n) may return: 0 when the first n bytes agree, else a
\* value with the sign of the first difference: its sign or the difference
RECURSIVE memcmp(_, _, _, _)
memcmp(a, b, n, k) ==
    IF k > n
    THEN {0}
    ELSE IF a[k] = b[k]
         THEN memcmp(a, b, n, k + 1)
         ELSE {IF a[k] < b[k] THEN -1 ELSE 1, a[k] - b[k]}

\* the values fclib_str_compare may return
fclib_str_compare(lhs, rhs) ==
    IF lhs.len < rhs.len
    THEN {-1}
    ELSE IF lhs.len > rhs.len
         THEN {1}
         ELSE memcmp(lhs.value, rhs.value, lhs.len, 1)

\* the strings the callers pass: up to MaxStrLen characters
Strings ==
    UNION {{fclib_str_init(v, n) : v \in [1..n -> Chars]} : n \in 0..MaxStrLen}

StrGetSlice ==
    /\ pc = "run"
    /\ last = NoOp
    /\ \E from \in 0..(arr.len + 1), to \in 0..(arr.len + 1), ok \in BOOLEAN :
         /\ last' = [op |-> "str_get_slice", from |-> from, to |-> to,
                     ok |-> ok]
         /\ IF ok
            THEN pc' = pc /\ slice' = fclib_str_get_slice(arr, from, to)
            ELSE \* malloc returned NULL inside fclib_str_create
                 pc' = "fault" /\ slice' = NULL
    /\ UNCHANGED <<arr, es, oob, wrote, heap, sys>>

StrCompare ==
    /\ pc = "run"
    /\ last = NoOp
    /\ \E rhs \in Strings :
         \E ret \in fclib_str_compare(arr, rhs) :
            last' = [op |-> "str_compare", rhs |-> rhs, ret |-> ret]
    /\ UNCHANGED <<pc, arr, es, oob, wrote, slice, heap, sys>>

StrEquals ==
    /\ pc = "run"
    /\ last = NoOp
    /\ \E rhs \in Strings :
         \E ret \in fclib_str_compare(arr, rhs) :
            last' = [op |-> "str_equals", rhs |-> rhs, ret |-> (ret = 0)]
    /\ UNCHANGED <<pc, arr, es, oob, wrote, slice, heap, sys>>

----------------------------------------------------------------------------
(* Output capture (src/fclib/system.h).  sys.fds[fd + 1] is the open file    *)
(* that descriptor fd refers to; sys.buf holds what stdio has buffered for   *)
(* each stream; sys.tmp is the content of the capture file.                  *)

Closed == [file |-> "closed"]

Streams == {"stdout", "stderr"}

\* fileno(stream)
fileno(stream) == IF stream = "stdout" THEN 1 ELSE 2

IsOpen(fds, fd) == fd + 1 \in 1..Len(fds) /\ fds[fd + 1] # Closed

\* the lowest descriptor not in use
LowestFree(fds) ==
    IF \E k \in 1..Len(fds) : fds[k] = Closed
    THEN (CHOOSE k \in 1..Len(fds) :
             fds[k] = Closed /\ \A j \in 1..(k - 1) : fds[j] # Closed) - 1
    ELSE Len(fds)

\* descriptor fd made to refer to file f
Refer(fds, fd, f) ==
    IF fd + 1 <= Len(fds) THEN [fds EXCEPT ![fd + 1] = f] ELSE Append(fds, f)

\* dup(fd): [fds, ret]
dup(fds, fd) ==
    [fds |-> Refer(fds, LowestFree(fds), fds[fd + 1]), ret |-> LowestFree(fds)]

\* dup2(oldfd, newfd); it fails and changes nothing when oldfd is not open
dup2(fds, oldfd, newfd) ==
    IF IsOpen(fds, oldfd) THEN Refer(fds, newfd, fds[oldfd + 1]) ELSE fds

\* close(fd)
close(fds, fd) ==
    IF IsOpen(fds, fd) THEN [fds EXCEPT ![fd + 1] = Closed] ELSE fds

\* the file of the capture in progress
CaptureFile(S) == [file |-> "tmp", id |-> S.capture_file.id]

\* fflush(stream): what is buffered goes to the file the stream's descriptor
\* refers to; only the capture file's content is kept
fflush(S, stream) ==
    LET f == S.fds[fileno(stream) + 1]
    IN  [S EXCEPT
           !.buf[stream] = <<>>,
           !.tmp = IF S.capture_file # NULL /\ f = CaptureFile(S)
                   THEN @ \o S.buf[stream]
                   ELSE @]

\* mutant: the buffers are not flushed before the redirection
fclib_system_start_capture_NoFlush(S, ok) ==
    IF S.capture_file # NULL
    THEN S
    ELSE LET F == S
             D1 == dup(F.fds, fileno("stdout"))
             D2 == dup(D1.fds, fileno("stderr"))
             id == S.starts + 1
             fd == LowestFree(D2.fds)
             T == Refer(D2.fds, fd, [file |-> "tmp", id |-> id])
             R1 == dup2(T, fd, fileno("stdout"))
             R2 == dup2(R1, fileno("stdout"), fileno("stderr"))
         IN  IF ok
             THEN [F EXCEPT !.fds = R2,
                            !.orig_stdout_fd = D1.ret,
                            !.orig_stderr_fd = D2.ret,
                            !.tmp = <<>>,
                            !.capture_file =
                               [null |-> FALSE, id |-> id, fd |-> fd]]
             ELSE \* tmpfile() returned NULL: the two duplicates stay open
                  [F EXCEPT !.fds = D2.fds,
                            !.orig_stdout_fd = -1,
                            !.orig_stderr_fd = -1]

\* fclib_system_start_capture; ok: tmpfile() succeeds
fclib_system_start_capture(S, ok) ==
    IF S.capture_file # NULL
    THEN S
    ELSE LET F == fflush(fflush(S, "stdout"), "stderr")
             D1 == dup(F.fds, fileno("stdout"))
             D2 == dup(D1.fds, fileno("stderr"))
             id == S.starts + 1
             fd == LowestFree(D2.fds)
             T == Refer(D2.fds, fd, [file |-> "tmp", id |-> id])
             R1 == dup2(T, fd, fileno("stdout"))
             R2 == dup2(R1, fileno("stdout"), fileno("stderr"))
         IN  IF ok
             THEN [F EXCEPT !.fds = R2,
                            !.orig_stdout_fd = D1.ret,
                            !.orig_stderr_fd = D2.ret,
                            !.tmp = <<>>,
                            !.capture_file =
                               [null |-> FALSE, id |-> id, fd |-> fd]]
             ELSE \* tmpfile() returned NULL: the two duplicates stay open
                  [F EXCEPT !.fds = D2.fds,
                            !.orig_stdout_fd = -1,
                            !.orig_stderr_fd = -1]

\* fclib_system_end_capture: [sys, ret]
fclib_system_end_capture(S) ==
    IF S.capture_file = NULL
    THEN [sys |-> S, ret |-> fclib_str_create(0)]
    ELSE LET F == fflush(fflush(S, "stdout"), "stderr")
             R1 == dup2(F.fds, F.orig_stdout_fd, fileno("stdout"))
             R2 == dup2(R1, F.orig_stderr_fd, fileno("stderr"))
             C1 == close(R2, F.orig_stdout_fd)
             C2 == close(C1, F.orig_stderr_fd)
             captured == fclib_str_init(F.tmp, Len(F.tmp))
         IN  [sys |-> [F EXCEPT !.fds = close(C2, F.capture_file.fd),
                                !.orig_stdout_fd = -1,
                                !.orig_stderr_fd = -1,
                                !.capture_file = NULL],
              ret |-> captured]

\* the program writes one character to a stream; the characters are numbered
SysWrite ==
    /\ pc = "run"
    /\ sys.writes < MaxWrites
    /\ \E stream \in Streams :
         /\ sys' = [sys EXCEPT !.buf[stream] = Append(@, sys.writes + 1),
                               !.writes = @ + 1]
         /\ last' = [op |-> "write", stream |-> stream]
    /\ wrote' = IF wrote = NoOp
                THEN wrote
                ELSE [wrote EXCEPT !.text = @ \cup {sys.writes + 1}]
    /\ UNCHANGED <<pc, arr, es, oob, slice, heap>>

\* stdio empties the buffer of a stream of its own accord
SysFlush ==
    /\ pc = "run"
    /\ \E stream \in Streams :
         /\ sys.buf[stream] # <<>>
         /\ sys' = fflush(sys, stream)
         /\ last' = [op |-> "flush", stream |-> stream]
    /\ UNCHANGED <<pc, arr, es, oob, wrote, slice, heap>>

\* wrote keeps, for the capture in progress, the files that stdout and stderr
\* referred to before its start and the characters written since
StartCapture ==
    /\ pc = "run"
    /\ sys.starts < MaxStarts
    /\ \E ok \in BOOLEAN :
         LET S == fclib_system_start_capture(sys, ok)
         IN  /\ sys' = [S EXCEPT !.starts = @ + 1]
             /\ last' = [op |-> "start", ok |-> ok, pre |-> sys]
             /\ wrote' = IF sys.capture_file # NULL
                         THEN wrote
                         ELSE IF ok
                              THEN [op |-> "start",
                                    stdout |-> sys.fds[fileno("stdout") + 1],
                                    stderr |-> sys.fds[fileno("stderr") + 1],
                                    text |-> {}]
                              ELSE NoOp
    /\ UNCHANGED <<pc, arr, es, oob, slice, heap>>

EndCapture ==
    /\ pc = "run"
    /\ last.op # "end"
    /\ LET E == fclib_system_end_capture(sys)
       IN  /\ sys' = E.sys
           /\ last' = [op |-> "end", ret |-> E.ret, pre |-> sys, began |-> wrote]
    /\ wrote' = NoOp
    /\ UNCHANGED <<pc, arr, es, oob, slice, heap>>

----------------------------------------------------------------------------
Init ==
    /\ pc = "run"
    /\ arr = NULL
    /\ es = 0
    /\ oob = FALSE
    /\ wrote = NoOp
    /\ last = NoOp
    /\ slice = NULL
    /\ heap = <<>>
    /\ sys = SysStart

Next ==
    \/ Create(AccessElemSizes, MaxDimLen)
    \/ FillVal(FillValue)
    \/ Access
    \/ AccessVal
    \/ AssignAt
    \/ AssignValAt

Spec == Init /\ [][Next]_vars

NextFill ==
    \/ Create(FillElemSizes, MaxFillLen)
    \/ FillSeq(Values)
    \/ FillExp(Values)
    \/ FillInline(Values)
    \/ FillVal(Values)

SpecFill == Init /\ [][NextFill]_vars

InitSlice1d ==
    /\ pc = "run"
    /\ \E n \in 0..MaxSrcLen, esz \in SliceElemSizes :
         arr = SliceSource(n, esz) /\ es = esz
    /\ oob = FALSE
    /\ wrote = NoOp
    /\ last = NoOp
    /\ slice = NULL
    /\ heap = <<>>
    /\ sys = SysStart

NextSlice1d == GetSlice1d

SpecSlice1d == InitSlice1d /\ [][NextSlice1d]_vars

InitSlice ==
    /\ pc = "run"
    /\ \E d \in Dimensionalities \ {0}, esz \in SliceNDElemSizes :
         \E shape \in SliceShapes(d) :
            arr = SliceSourceND(shape, esz) /\ es = esz
    /\ oob = FALSE
    /\ wrote = NoOp
    /\ last = NoOp
    /\ slice = NULL
    /\ heap = <<>>
    /\ sys = SysStart

NextSlice == GetSlice

SpecSlice == InitSlice /\ [][NextSlice]_vars

\* the heap before the calls: a plain array with its slots assigned, or an
\* array of pointer slots not yet filled next to a seed, or a nested array
InitHeap ==
    /\ pc = "run"
    /\ arr = At(1)
    /\ \/ \E shape \in HeapShapes, esz \in SliceNDElemSizes :
            /\ heap = <<Block(Image(SliceSourceND(shape, esz)))>>
            /\ es = esz
       \/ \E n \in 0..MaxDeepLen, seed \in Seeds :
            /\ heap = <<Block(Image(fclib_arr_create(1, WordSize, <<n>>))),
                        Block(seed)>>
            /\ es = WordSize
       \/ \E n1 \in 0..MaxDeepLen, n2 \in 0..MaxDeepLen :
            /\ 1 + n1 + n1 * n2 <= MaxBlocks
            /\ heap = Nested(n1, n2)
            /\ es = WordSize
       \/ \E n1 \in 0..MaxDeepLen, n2 \in 0..MaxDeepLen :
            /\ 3 + n1 + n2 <= MaxBlocks
            /\ heap = DeepInner(n1, n2)
            /\ es = WordSize
    /\ oob = FALSE
    /\ wrote = NoOp
    /\ last = NoOp
    /\ slice = NULL
    /\ sys = SysStart

NextHeap ==
    \/ HeapGetSlice1d
    \/ HeapGetSlice
    \/ HeapAssignAt
    \/ HeapFillDeep
    \/ HeapFree

SpecHeap == InitHeap /\ [][NextHeap]_vars

InitStr ==
    /\ pc = "run"
    /\ arr \in Strings
    /\ es = 1
    /\ oob = FALSE
    /\ wrote = NoOp
    /\ last = NoOp
    /\ slice = NULL
    /\ heap = <<>>
    /\ sys = SysStart

NextStr ==
    \/ StrGetSlice
    \/ StrCompare
    \/ StrEquals

SpecStr == InitStr /\ [][NextStr]_vars

InitSys ==
    /\ pc = "run"
    /\ arr = NULL
    /\ es = 0
    /\ oob = FALSE
    /\ wrote = NoOp
    /\ last = NoOp
    /\ slice = NULL
    /\ heap = <<>>
    /\ sys = SysStart

NextSys ==
    \/ SysWrite
    \/ SysFlush
    \/ StartCapture
    \/ EndCapture

SpecSys == InitSys /\ [][NextSys]_vars

----------------------------------------------------------------------------
(* The claims *)

FillOps == {"fill_seq", "fill_exp", "fill_inline", "fill_val"}
AssignOps == {"assign_at", "assign_val_at"}

\* the bytes of slot k of array a
Slot(a, esz, k) == MemRead(a.data, k * esz, esz)

\* an element of esz bytes as the size_t that holds just that value
ZeroExtend(b) == [k \in 1..WordSize |-> IF k <= Len(b) THEN b[k] ELSE 0]

\* the product of the axis lengths, by the definition of total_elements
ShapeProduct(s) ==
    LET P[n \in 0..Len(s)] == IF n = 0 THEN 1 ELSE P[n - 1] * s[n]
    IN  P[Len(s)]

\* stride[0] = 1, stride[i] = stride[i-1] * shape[i-1] (axes counted from 1 here)
StrideOf(s, i) ==
    LET S[n \in 1..i] == IF n = 1 THEN 1 ELSE S[n - 1] * s[n - 1]
    IN  S[i]

\* sum over the axes of indices[i] * stride[i]
FlatOffset(s, ix) ==
    LET A[n \in 0..Len(s)] == IF n = 0 THEN 0 ELSE A[n - 1] + ix[n] * StrideOf(s, n)
    IN  A[Len(s)]

InBoundsIndices(a) == {ix \in Indices(a) : InBounds(a, ix)}

\* C1: after assign_at / assign_val_at of v at an in-bounds index,
\* access_val at that index returns v.
\* The code leaves the bytes of the returned container above element_size
\* indeterminate, so this fails for element_size < 8.
C1_RoundTrip ==
    (/\ last.op = "access_val"
     /\ pc = "run"
     /\ arr.len >= 1
     /\ wrote # NoOp
     /\ last.idx = wrote.idx)
    => last.ret = ZeroExtend(wrote.val)

\* C2: for one seed, shape and element size, fill_seq, fill_exp and
\* fill_inline leave the same payload bytes, on both sides of the hybrid
\* threshold: the payload a fill left is the payload each of the three
\* strategies produces on a newly created array of that shape.
C2_FillsAgree ==
    last.op \in {"fill_seq", "fill_exp", "fill_inline"} =>
        LET new == fclib_arr_create(arr.len, es, arr.shape)
        IN  /\ arr.data = fclib_arr_fill_seq(new, es, last.val).data
            /\ arr.data = fclib_arr_fill_exp(new, es, last.val).data
            /\ arr.data = fclib_arr_fill_inline(new, es, last.val).data

C2_Witness ==
    /\ last.op = "fill_inline"
    /\ es >= HybridThreshold
    /\ arr.len = 2
    /\ ShapeProduct(arr.shape) = 6
    /\ pc = "run"

\* C3: after any of the four fills every slot 0..total_elements-1 holds the
\* seed, whatever the dimensionality and the axis lengths.
C3_EverySlotSeeded ==
    last.op \in FillOps =>
        /\ Len(arr.data) = ShapeProduct(arr.shape) * es
        /\ \A k \in 0..(ShapeProduct(arr.shape) - 1) : Slot(arr, es, k) = last.val

\* Scenario A: a 1-D array of 5 four-byte slots, fill_val with 7
C3_Witness ==
    /\ last.op = "fill_val"
    /\ arr.shape = <<5>>
    /\ es = 4
    /\ last.val = <<7, 0, 0, 0>>
    /\ \A k \in 0..4 : Slot(arr, es, k) = <<7, 0, 0, 0>>

\* C4: fclib_arr_access returns NULL exactly when some indices[i] >= shape[i],
\* whichever axis that is.
C4_NullIffOutOfBounds ==
    last.op = "access" =>
        (last.ret.null <=> \E i \in 1..arr.len : last.idx[i] >= arr.shape[i])

\* out of bounds on the last of three axes only
C4_Witness ==
    /\ last.op = "access"
    /\ arr.len = 3
    /\ last.idx[1] < arr.shape[1]
    /\ last.idx[2] < arr.shape[2]
    /\ last.idx[3] >= arr.shape[3]
    /\ last.ret.null

\* C5: for in-bounds indices fclib_arr_access addresses slot
\* sum indices[i] * stride[i], axis 0 fastest; the slot is below
\* total_elements, no other in-bounds multi-index has it, and every slot is
\* the slot of some in-bounds multi-index.
C5_OffsetBijection ==
    (last.op = "access" /\ ~last.ret.null) =>
        LET total == ShapeProduct(arr.shape)
            slot == FlatOffset(arr.shape, last.idx)
        IN  /\ last.ret.off = slot * es
            /\ slot < total
            /\ \A jx \in InBoundsIndices(arr) :
                  jx # last.idx => fclib_arr_access(arr, es, jx) # last.ret
            /\ \A k \in 0..(total - 1) :
                  \E jx \in InBoundsIndices(arr) :
                     fclib_arr_access(arr, es, jx) = Ptr(k * es)

C5_Witness ==
    /\ last.op = "access"
    /\ arr.shape = <<2, 2, 2>>
    /\ last.idx = <<1, 0, 1>>
    /\ last.ret = Ptr(5 * es)

\* C6: assign_at / assign_val_at with an out-of-range axis leave the array
\* unchanged, write nothing and do not end or fault the process.
\* The code passes the NULL of fclib_arr_access to memcpy.
C6_OutOfBoundsAssignIsHarmless ==
    (last.op \in AssignOps /\ ~InBounds(last.pre, last.idx)) =>
        /\ pc = "run"
        /\ arr = last.pre
        /\ ~oob

\* C7: fclib_arr_create with dimensionality 0 returns no array, so every
\* array returned has dimensionality >= 1.
\* The code does not test the dimensionality.
C7_NoZeroDimensionalArray ==
    /\ (last.op = "create" /\ last.d = 0 /\ last.ok) => arr = NULL
    /\ arr # NULL => arr.len >= 1
    /\ slice # NULL => slice.len >= 1

\* C8: fclib_arr_create allocates header + d shape words + product * es
\* bytes, stores d and the shape in axis order; a shape with a 0 has an
\* empty payload.
C8_CreateLayout ==
    (last.op = "create" /\ last.ok) =>
        /\ arr.size = HeaderSize + last.d * WordSize
                      + ShapeProduct(last.lengths) * es
        /\ arr.len = last.d
        /\ arr.shape = last.lengths
        /\ Len(arr.data) = ShapeProduct(last.lengths) * es
        /\ (\E i \in 1..last.d : last.lengths[i] = 0) => Len(arr.data) = 0

C8_Witness ==
    /\ last.op = "create"
    /\ arr # NULL
    /\ arr.shape = <<3, 0>>
    /\ arr.size = HeaderSize + 2 * WordSize
    /\ Len(arr.data) = 0

\* the effective upper bound of a 1-D slice: len when to = 0 or to > len
UpperBound(len, to) == IF to = 0 \/ to > len THEN len ELSE to

\* C9: get_slice_1d with from < T returns a new 1-D array of length T - from
\* whose element k is src[from + k]; slicing [0, len) copies the payload.
C9_Slice1dCopies ==
    (/\ last.op = "get_slice_1d"
     /\ last.ok
     /\ last.from < UpperBound(arr.shape[1], last.to)) =>
        LET T == UpperBound(arr.shape[1], last.to)
        IN  /\ pc = "run"
            /\ slice # NULL
            /\ slice.len = 1
            /\ slice.shape = <<T - last.from>>
            /\ Len(slice.data) = (T - last.from) * es
            /\ \A k \in 0..(T - last.from - 1) :
                  Slot(slice, es, k) = Slot(arr, es, last.from + k)
            /\ (last.from = 0 /\ T = arr.shape[1]) => slice.data = arr.data

\* a clamped upper bound: [3, 11) of a source of 10
C9_Witness ==
    /\ last.op = "get_slice_1d"
    /\ arr.shape = <<10>>
    /\ es = 4
    /\ last.from = 3
    /\ last.to = 11
    /\ slice # NULL
    /\ slice.shape = <<7>>

\* C10: get_slice_1d ends the process and returns no array when from equals
\* the effective upper bound.
C10_EmptyRangeAborts ==
    (/\ last.op = "get_slice_1d"
     /\ last.from = UpperBound(arr.shape[1], last.to)) =>
        /\ pc = "abort"
        /\ slice = NULL

\* Scenario C: source of 10, from = 3, to = 3
C10_Witness ==
    /\ last.op = "get_slice_1d"
    /\ arr.shape = <<10>>
    /\ last.from = 3
    /\ last.to = 3
    /\ pc = "abort"

\* C11: get_slice_1d with from above the effective upper bound T > 0 clamps
\* from to T - 1 and returns a 1-D array of length 1 holding src[T - 1]; it
\* ends the process (abort) only when T = 0.
C11_FromClampedToLast ==
    (/\ last.op = "get_slice_1d"
     /\ last.from > UpperBound(arr.shape[1], last.to)) =>
        LET T == UpperBound(arr.shape[1], last.to)
        IN  /\ (pc = "abort") <=> (T = 0)
            /\ (T > 0 /\ last.ok) =>
                  /\ pc = "run"
                  /\ slice # NULL
                  /\ slice.len = 1
                  /\ slice.shape = <<1>>
                  /\ slice.data = Slot(arr, es, T - 1)

\* [7, 4) of a source of 10: the single element src[3]
C11_Witness ==
    /\ last.op = "get_slice_1d"
    /\ arr.shape = <<10>>
    /\ es = 4
    /\ last.from = 7
    /\ last.to = 4
    /\ slice # NULL
    /\ slice.data = Slot(arr, es, 3)

\* the source of a slicing run still holds what it was built with
SourceIntact == arr = SliceSourceND(arr.shape, es)

Axes(a) == 0..(a.len - 1)

\* C12: get_slice returns NULL, creates no array and leaves the source as it
\* was whenever some axis, whichever it is, is a fixed index past the axis
\* (from = to >= shape), a range ending past the axis (to > shape), or a range
\* of exactly one element (to - from = 1).
C12_InvalidAxisGivesNull ==
    (/\ last.op = "get_slice"
     /\ last.ok
     /\ \E i \in Axes(arr) :
          LET from == RangeFrom(last.ranges, i)
              to == RangeTo(last.ranges, i)
          IN  \/ from = to /\ from >= arr.shape[i + 1]
              \/ from # to /\ to > arr.shape[i + 1]
              \/ to - from = 1) =>
        /\ pc = "run"
        /\ slice = NULL
        /\ SourceIntact

\* [4, 4] with axis 0 a valid range and axis 1 a range of one element
C12_Witness ==
    /\ last.op = "get_slice"
    /\ last.ok
    /\ arr.shape = <<4, 4>>
    /\ last.ranges = <<1, 3, 2, 3>>
    /\ pc = "run"
    /\ slice = NULL

\* C13: a pair with from above to makes the whole call fail: no array is
\* returned and the process is not ended, whatever the dimensionality.
\* The code tests to - from < 2 on size_t, where the difference wraps.
C13_ReversedRangeFails ==
    (/\ last.op = "get_slice"
     /\ last.ok
     /\ \E i \in Axes(arr) :
          RangeFrom(last.ranges, i) > RangeTo(last.ranges, i)) =>
        /\ pc = "run"
        /\ slice = NULL

IsRanged(ranges, i) == RangeFrom(ranges, i) # RangeTo(ranges, i)

RangedAxes(a, ranges) == {i \in Axes(a) : IsRanged(ranges, i)}

\* every axis is a fixed index inside the axis or a range of two or more
\* elements inside the axis
ValidRanges(a, ranges) ==
    \A i \in Axes(a) :
        LET from == RangeFrom(ranges, i)
            to == RangeTo(ranges, i)
        IN  \/ from = to /\ from < a.shape[i + 1]
            \/ from + 2 <= to /\ to <= a.shape[i + 1]

\* how many ranged axes come before axis i
RangedBefore(ranges, i) == Cardinality({k \in 0..(i - 1) : IsRanged(ranges, k)})

\* to - from of the ranged axes, in axis order
KeptLengths(a, ranges) ==
    [m \in 1..Cardinality(RangedAxes(a, ranges)) |->
        LET i == CHOOSE k \in RangedAxes(a, ranges) :
                    RangedBefore(ranges, k) = m - 1
        IN  RangeTo(ranges, i) - RangeFrom(ranges, i)]

\* the source index x of result index j: from + j_m on the m-th ranged axis,
\* from on a fixed axis
SourceIndex(a, ranges, j) ==
    [n \in 1..a.len |->
        RangeFrom(ranges, n - 1)
          + (IF IsRanged(ranges, n - 1)
             THEN j[RangedBefore(ranges, n - 1) + 1]
             ELSE 0)]

\* the in-bounds multi-indices of a slice
SliceIndices(a) ==
    {ix \in [1..a.len -> 0..(MaxSliceLen - 1)] :
        \A i \in 1..a.len : ix[i] < a.shape[i]}

\* the element that fclib_arr_access points at
ElementAt(a, esz, ix) == MemRead(a.data, fclib_arr_access(a, esz, ix).off, esz)

\* the slice holds, at every index j, the source element at SourceIndex(j)
HoldsRegion ==
    \A j \in SliceIndices(slice) :
        ElementAt(slice, es, j)
            = Slot(arr, es, FlatOffset(arr.shape, SourceIndex(arr, last.ranges, j)))

\* C14: for valid ranges with any mix of fixed and ranged axes, get_slice
\* returns an array whose shape is to - from over the ranged axes in axis
\* order and whose element at j is the source element at x, x_i = from_i + j_m
\* on the m-th ranged axis and x_i = from_i on a fixed axis.
\* The odometer of the copy loop advances the highest axis first.
C14_SliceSelectsRegion ==
    (/\ last.op = "get_slice"
     /\ last.ok
     /\ ValidRanges(arr, last.ranges)
     /\ RangedAxes(arr, last.ranges) # {}) =>
        /\ pc = "run"
        /\ slice # NULL
        /\ slice.len = Cardinality(RangedAxes(arr, last.ranges))
        /\ slice.shape = KeptLengths(arr, last.ranges)
        /\ HoldsRegion

\* C15: with exactly one fixed axis, whichever it is, on a source of two or
\* more axes, get_slice returns an array of one axis less that holds the
\* selected hyperplane.
C15_OneFixedAxisHyperplane ==
    (/\ last.op = "get_slice"
     /\ last.ok
     /\ arr.len >= 2
     /\ ValidRanges(arr, last.ranges)
     /\ Cardinality(Axes(arr) \ RangedAxes(arr, last.ranges)) = 1) =>
        /\ slice # NULL
        /\ slice.len = arr.len - 1
        /\ HoldsRegion

ScenarioD ==
    /\ last.op = "get_slice"
    /\ last.ok
    /\ arr.shape = <<4, 4>>
    /\ last.ranges = <<0, 4, 1, 2>>

\* C16 as stated: ranges [0,4, 1,2] on a [4,4] source return a 1-D array of
\* length 4 holding the column at index 1.
C16_ScenarioD_Column ==
    ScenarioD =>
        /\ slice # NULL
        /\ slice.shape = <<4>>
        /\ \A r \in 0..3 : Slot(slice, es, r) = Slot(arr, es, r + 4 * 1)

\* C16 amended: ranges [0,4, 1,2] on a [4,4] source give axis 1 as a range of
\* one element, so the call returns NULL: no array, the process running, the
\* source unchanged.
C16_ScenarioD_Null ==
    ScenarioD =>
        /\ pc = "run"
        /\ slice = NULL
        /\ SourceIntact

C16_Witness ==
    /\ ScenarioD
    /\ slice = NULL
    /\ pc = "run"

\* C17: get_slice never returns an array of dimensionality 0; with every axis
\* a fixed index in bounds the call produces no array.
\* The only guard is assert(new_dimensionality > 0).
C17_NoZeroDimensionalSlice ==
    (/\ last.op = "get_slice"
     /\ last.ok
     /\ ValidRanges(arr, last.ranges)
     /\ RangedAxes(arr, last.ranges) = {}) =>
        slice = NULL

SliceOps == {"get_slice", "get_slice_1d"}

\* of the source and its slice, the pointer that the last call did not name
Other == IF last.target = "arr" THEN slice ELSE arr

SlotPtr(H, p, i) == Word(View(H[p].bytes).data, i * WordSize)

SlotCount(H, p) == total_elements(View(H[p].bytes).shape)

\* C19: after fill_deep every slot holds a pointer to a block allocated by
\* the call, of value_size bytes equal to the seed's; the slot pointers differ
\* from one another and from the seed pointer.
C19_DeepFillOwnBlocks ==
    (last.op = "fill_deep" /\ last.ok) =>
        LET n == SlotCount(heap, arr.addr)
            ptr(i) == SlotPtr(heap, arr.addr, i)
        IN  /\ \A i \in 0..(n - 1) :
                  /\ ptr(i) \in (Len(last.pre) + 1)..Len(heap)
                  /\ heap[ptr(i)].live
                  /\ Len(heap[ptr(i)].bytes) = last.value_size
                  /\ heap[ptr(i)].bytes
                        = SubSeq(last.pre[last.value].bytes, 1, last.value_size)
                  /\ ptr(i) # last.value
            /\ \A i, j \in 0..(n - 1) : i # j => ptr(i) # ptr(j)

\* two slots filled from the buffer of an array
C19_Witness ==
    /\ last.op = "fill_deep"
    /\ last.ok
    /\ pc = "run"
    /\ SlotCount(heap, arr.addr) = 2
    /\ last.value_size = 24
    /\ SlotPtr(heap, arr.addr, 0) = 3
    /\ SlotPtr(heap, arr.addr, 1) = 4

\* the heap holds a nested array as assembled, nothing released yet
IsNested(H) ==
    \E n1 \in 0..MaxDeepLen, n2 \in 0..MaxDeepLen : H = Nested(n1, n2)

\* C20: fclib_arr_free(outer, 2) on a nested array of depth 2 with every
\* allocation distinct releases every block exactly once; fclib_arr_free(arr, 0)
\* releases the array's own buffer and nothing else.
C20_DeepFreeExactlyOnce ==
    /\ (/\ last.op = "free"
        /\ last.target = "arr"
        /\ last.complexity = 2
        /\ IsNested(last.pre)) =>
          /\ pc = "run"
          /\ \A a \in 1..Len(heap) : ~heap[a].live /\ heap[a].frees = 1
    /\ (/\ last.op = "free"
        /\ last.complexity = 0
        /\ IsLive(last.pre, Target(last.target).addr)) =>
          /\ pc = "run"
          /\ heap = [last.pre EXCEPT ![Target(last.target).addr] =
                        [live |-> FALSE, bytes |-> @.bytes, frees |-> 1]]

\* an outer array of two inner arrays of two values each, released
C20_Witness ==
    /\ last.op = "free"
    /\ last.target = "arr"
    /\ last.complexity = 2
    /\ last.pre = Nested(2, 2)
    /\ Len(heap) = 7
    /\ \A a \in 1..7 : heap[a].frees = 1

\* C21: when malloc returns NULL inside fclib_arr_create the process is
\* aborted: nothing is written through the null result and the constructor
\* does not return.
\* The code does not test the result of malloc: arr->len is written through it.
C21_AllocFailureAborts ==
    (last.op = "create" /\ ~last.ok) => pc = "abort"

\* the characters of a string, without the terminator
Chars_of(s) == SubSeq(s.value, 1, s.len)

\* a is before b in lexicographic order
RECURSIVE LexBefore(_, _)
LexBefore(a, b) ==
    IF b = <<>>
    THEN FALSE
    ELSE IF a = <<>>
         THEN TRUE
         ELSE IF Head(a) # Head(b)
              THEN Head(a) < Head(b)
              ELSE LexBefore(Tail(a), Tail(b))

\* C22: fclib_str_get_slice with from < to <= len returns a new string of
\* length to - from whose byte k is src->value[from + k]; with from equal to
\* the effective upper bound it returns an empty string and the process runs
\* on.
\* The code copies from src->value, not from src->value + real_from.
C22_StrSliceCopiesRange ==
    (last.op = "str_get_slice" /\ last.ok) =>
        /\ (last.from < last.to /\ last.to <= arr.len) =>
              /\ slice.len = last.to - last.from
              /\ \A k \in 0..(slice.len - 1) :
                    slice.value[k + 1] = arr.value[last.from + k + 1]
        /\ last.from = UpperBound(arr.len, last.to) =>
              /\ pc = "run"
              /\ slice = fclib_str_create(0)

\* C23: fclib_str_compare returns only -1, 0 or 1: -1 when lhs is before rhs
\* in lexicographic order, 0 exactly when both have the same length and
\* content, 1 when lhs is after rhs; fclib_str_equals is true exactly when the
\* result is 0.
\* The code orders by length first and returns what memcmp returns.
C23_CompareIsLexicographic ==
    /\ last.op = "str_compare" =>
          /\ last.ret \in {-1, 0, 1}
          /\ (last.ret = -1) <=> LexBefore(Chars_of(arr), Chars_of(last.rhs))
          /\ (last.ret = 0) <=> (arr = last.rhs)
          /\ (last.ret = 1) <=> LexBefore(Chars_of(last.rhs), Chars_of(arr))
    /\ last.op = "str_equals" => (last.ret <=> (arr = last.rhs))

\* the file that the descriptor of stream refers to
FileOf(S, stream) == S.fds[fileno(stream) + 1]

\* C24: a start while capturing changes nothing; an end while not capturing
\* returns an empty string and changes nothing; an end while capturing puts
\* stdout and stderr back on the files they referred to before the matching
\* start, returns the characters written since that start and leaves the
\* module not capturing; a start while not capturing (tmpfile succeeding)
\* captures, also after an earlier capture has ended.
C24_CaptureToggles ==
    /\ (last.op = "start" /\ last.pre.capture_file # NULL) =>
          sys = [last.pre EXCEPT !.starts = @ + 1]
    /\ (last.op = "start" /\ last.pre.capture_file = NULL /\ last.ok) =>
          /\ sys.capture_file # NULL
          /\ FileOf(sys, "stdout") = CaptureFile(sys)
          /\ FileOf(sys, "stderr") = CaptureFile(sys)
    /\ (last.op = "end" /\ last.pre.capture_file = NULL) =>
          /\ last.ret = fclib_str_create(0)
          /\ sys = last.pre
    /\ (last.op = "end" /\ last.pre.capture_file # NULL) =>
          /\ FileOf(sys, "stdout") = last.began.stdout
          /\ FileOf(sys, "stderr") = last.began.stderr
          /\ sys.capture_file = NULL
          /\ last.ret.len = Cardinality(last.began.text)
          /\ {last.ret.value[k] : k \in 1..last.ret.len} = last.began.text

\* the second capture has ended and returned the one character written
\* during it, the character written before it having gone to the terminal
C24_Witness ==
    /\ last.op = "end"
    /\ last.pre.capture_file # NULL
    /\ sys.starts = 2
    /\ last.began.text = {3}
    /\ last.ret.value = <<3, 0>>
    /\ FileOf(sys, "stdout") = [file |-> "out"]
    /\ FileOf(sys, "stderr") = [file |-> "err"]

\* the fills that run the doubling loop
IsExpFill ==
    \/ last.op = "fill_exp"
    \/ last.op \in {"fill_inline", "fill_val"} /\ es < HybridThreshold

\* the payload as the constructor leaves it, with the seed in slot 0
Seeded(a, value) ==
    MemCpy([data |-> [k \in 1..Len(a.data) |-> Uninit], oob |-> FALSE], 0, value)

RECURSIVE ExpRoundsOk(_, _, _, _, _, _)
\* the doubling loop followed round by round from payload M with filled slots
\* filled, for at most fuel rounds: every round is as claimed and the loop
\* ends with filled = total and the payload final
ExpRoundsOk(M, esz, filled, total, fuel, final) ==
    IF filled < total
    THEN /\ fuel > 0
         /\ LET r == ExpRound(M, esz, filled, total)
                to_copy == r.filled - filled
            IN  /\ 1 <= filled /\ filled <= total
                /\ 1 <= r.filled /\ r.filled <= total
                /\ to_copy = IF filled <= total - filled
                             THEN filled ELSE total - filled
                /\ to_copy <= filled
                /\ \A k \in 1..(to_copy * esz) : M.data[k] # Uninit
                /\ ~r.mem.oob
                /\ r.mem.data = SubSeq(M.data, 1, filled * esz)
                                   \o SubSeq(M.data, 1, to_copy * esz)
                                   \o SubSeq(M.data, r.filled * esz + 1,
                                             Len(M.data))
                /\ ExpRoundsOk(r.mem, esz, r.filled, total, fuel - 1, final)
    ELSE /\ filled = total
         /\ M.data = final

\* C25: for every total_elements >= 1 the doubling loop ends, within
\* total_elements rounds, with filled = total_elements and the payload the
\* fill produced; every round keeps 1 <= filled <= total_elements, copies
\* exactly min(filled, total_elements - filled) slots from slot 0 onwards to
\* slot filled onwards, reads only slots already filled (so source and
\* destination do not overlap) and writes nothing at or past slot
\* total_elements.
C25_DoublingLoop ==
    (IsExpFill /\ total_elements(arr.shape) >= 1) =>
       ExpRoundsOk(Seeded(arr, last.val), es, 1, total_elements(arr.shape),
                   total_elements(arr.shape), arr.data)

\* fill_exp has filled five slots: rounds of 1, 2 and 1 slots, the last one
\* partial
C25_Witness ==
    /\ last.op = "fill_exp"
    /\ arr # NULL
    /\ total_elements(arr.shape) = 5
    /\ \A k \in 1..Len(arr.data) : arr.data[k] # Uninit

\* the block at p holds an array of pointer slots
IsArrayBlock(H, p) ==
    /\ IsLive(H, p)
    /\ LET a == View(H[p].bytes)
       IN  /\ a.len # Wild
           /\ \A i \in 1..a.len : a.shape[i] # Wild
           /\ Len(a.data) = total_elements(a.shape) * WordSize

\* the pointers in the slots of the array at p
Kids(H, p) ==
    LET a == View(H[p].bytes)
    IN  {Word(a.data, (i - 1) * WordSize) : i \in 1..total_elements(a.shape)}

RECURSIVE Owned(_, _, _)
\* the blocks of the structure of depth c at p
Owned(H, p, c) ==
    IF c = 0
    THEN {p}
    ELSE {p} \cup UNION {Owned(H, k, c - 1) : k \in Kids(H, p)}

RECURSIVE Edges(_, _, _)
\* the pairs <<parent, child>> of the structure of depth c at p
Edges(H, p, c) ==
    IF c = 0
    THEN {}
    ELSE {<<p, k>> : k \in Kids(H, p)}
            \cup UNION {Edges(H, k, c - 1) : k \in Kids(H, p)}

RECURSIVE Proper(_, _, _)
\* the structure of depth c at p is a tree of live blocks: every slot holds
\* the address of a block of its own
Proper(H, p, c) ==
    IF c = 0
    THEN IsLive(H, p)
    ELSE /\ IsArrayBlock(H, p)
         /\ Cardinality(Kids(H, p)) = total_elements(View(H[p].bytes).shape)
         /\ \A k \in Kids(H, p) : Proper(H, k, c - 1)
         /\ \A k \in Kids(H, p) : p \notin Owned(H, k, c - 1)
         /\ \A k1, k2 \in Kids(H, p) :
              k1 # k2 => Owned(H, k1, c - 1) \cap Owned(H, k2, c - 1) = {}

\* C26: in fclib_arr_free with complexity > 0 on a structure of that depth,
\* every block of the structure is released, every child before the parent
\* whose slot holds it, at every level, and no block is read after it has
\* been released.
C26_ChildrenBeforeParent ==
    (/\ last.op = "free"
     /\ last.complexity > 0
     /\ Target(last.target) # NULL
     /\ Proper(last.pre, Target(last.target).addr, last.complexity)) =>
       LET p == Target(last.target).addr
           log == last.log
       IN  /\ \A q \in Owned(last.pre, p, last.complexity) :
                \E n \in 1..Len(log) : log[n] = Freed(q)
           /\ \A e \in Edges(last.pre, p, last.complexity) :
                \E m, n \in 1..Len(log) :
                   /\ m < n
                   /\ log[m] = Freed(e[2])
                   /\ log[n] = Freed(e[1])
           /\ \A m, n \in 1..Len(log) :
                (m < n /\ log[m].ev = "free") => log[n] # Read(log[m].addr)
           /\ log[Len(log)] = Freed(p)

\* an outer array of two inner arrays of two values each has been released:
\* the values first, each inner array after its values, the outer array last
C26_Witness ==
    /\ last.op = "free"
    /\ last.target = "arr"
    /\ last.complexity = 2
    /\ last.pre = Nested(2, 2)
    /\ Len(last.log) = 16
    /\ last.log[Len(last.log)] = Freed(1)
    /\ \E m \in 1..16 : last.log[m] = Freed(4)

\* C27: no fill writes outside the payload of total_elements slots, for every
\* shape the constructor accepts, an axis of length 0 included.
\* Every fill but fclib_arr_fill_deep copies the seed to slot 0 before it
\* looks at total_elements.
C27_FillsStayInPayload ==
    last.op \in FillOps => ~oob

\* the last call of fclib_arr_get_slice passed the validation loop with its
\* allocations succeeding and took the general path
PassedValidation ==
    /\ last.op = "get_slice"
    /\ last.ok
    /\ LET v == ValidateRanges(arr, last.ranges, 0, 0)
       IN  /\ ~v.null
           /\ ~(arr.len = 1 /\ v.new_dimensionality = 1)

\* C28: in every call of fclib_arr_get_slice that passes validation the
\* odometer never steps below axis 0, every chunk is read inside the source
\* payload and written inside the result payload, total_result_elements is a
\* multiple of chunk_size, and the chunks copied make up
\* total_result_elements.  (A size_t of 2^63 or more is a negative number
\* here.)
\* A pair with from > to passes the validation loop: its length to - from
\* wraps.
C28_ChunksStayInside ==
    PassedValidation =>
       LET ranges == last.ranges
           new_dim_lengths == NewDimLengths(ranges, arr.len)
           total_result_elements == total_elements(new_dim_lengths)
           v == ValidateRanges(arr, ranges, 0, 0)
           result == fclib_arr_create(v.new_dimensionality, es, new_dim_lengths)
           num_chunks == UDiv(total_result_elements, chunk_size(ranges))
           D == ChunkLoop([data |-> result.data, oob |-> FALSE, bad |-> FALSE],
                          arr, es, ranges,
                          [i \in 1..arr.len |-> RangeFrom(ranges, i - 1)],
                          0, num_chunks, 0)
       IN  /\ total_result_elements >= 0
           /\ chunk_size(ranges) > 0
           /\ total_result_elements % chunk_size(ranges) = 0
           /\ ~D.bad
           /\ ~D.oob
           /\ num_chunks * chunk_size(ranges) = total_result_elements

\* the depth-2 structure built with fclib_arr_fill_deep alone: the inner
\* array deep-filled, then the outer array deep-filled with the inner
\* array's buffer as the seed
DeepBuilt(n1, n2) ==
    LET H == DeepInner(n1, n2)
    IN  fclib_arr_fill_deep(H, 1, Len(H[2].bytes), 2, n1).blocks

\* C29: on a depth-2 structure built with fclib_arr_fill_deep alone,
\* fclib_arr_free(outer, 2) releases no allocation twice, and no value is
\* reachable from two different outer slots.
\* fclib_arr_fill_deep copies the bytes of the seed buffer: every copy of the
\* inner array holds the inner array's own slot pointers.
C29_DeepBuiltFreedOnce ==
    (/\ last.op = "free"
     /\ last.target = "arr"
     /\ last.complexity = 2
     /\ \E n1, n2 \in 0..MaxDeepLen : last.pre = DeepBuilt(n1, n2)) =>
       /\ pc = "run"
       /\ \A a \in 1..Len(heap) : heap[a].frees <= 1
       /\ \A k1, k2 \in Kids(last.pre, 1) :
            k1 # k2 => Kids(last.pre, k1) \cap Kids(last.pre, k2) = {}

\* C30: assign_at / assign_val_at with an in-bounds idx change the slot that
\* idx addresses and nothing else: the dimensionality, the shape, the size of
\* the buffer and every other slot are as before, and nothing is written
\* outside the payload; access / access_val leave the array as it was.
C30_AssignChangesOneSlot ==
    /\ (last.op \in AssignOps /\ InBounds(last.pre, last.idx)) =>
          /\ pc = "run"
          /\ ~oob
          /\ arr.len = last.pre.len
          /\ arr.shape = last.pre.shape
          /\ arr.size = last.pre.size
          /\ Len(arr.data) = Len(last.pre.data)
          /\ \A k \in 0..(total_elements(arr.shape) - 1) :
               k # FlatOffset(arr.shape, last.idx) =>
                  Slot(arr, es, k) = Slot(last.pre, es, k)
    /\ last.op \in {"access", "access_val"} => arr = last.pre

\* assign_val_at has changed slot (0, 1) of a 2 x 2 array of four-byte
\* elements
C30_Witness ==
    /\ last.op = "assign_val_at"
    /\ es = 4
    /\ arr.shape = <<2, 2>>
    /\ last.idx = <<0, 1>>
    /\ Slot(arr, es, 2) = LE(513, 4)
    /\ Slot(last.pre, es, 2) # LE(513, 4)
    /\ pc = "run"
====
